---- MODULE Spec2Model ----
(***************************************************************************)
(* brainspy.processors.simulation.processor.SurrogateModel: a trained      *)
(* network wrapped with amplification, noise and output clipping.          *)
(*                                                                         *)
(* The Python object is the record sm; each method is an operator from     *)
(* the object (and the call's arguments) to the object after the call,     *)
(* together with what the call returned, raised and warned.  Tensors are   *)
(* integers and tuples of integers.                                        *)
(***************************************************************************)
EXTENDS Integers, Sequences, FiniteSets, TLC

VARIABLES
    file,        \* what torch.load finds under the filename
    pc,          \* "new" before SurrogateModel(filename), then "ready" or "failed"
    sm,          \* the SurrogateModel object: its attributes
    lastOp,      \* the last call: [name, args]
    ret,         \* what the last call returned
    raised,      \* the exception the last call raised, or "none"
    warned,      \* the number of warnings.warn calls the last call made
    trace,       \* the stages the last forward call applied, in order
    configured,  \* history: a configuration call has been made
    hist         \* history: per slot, the progress of default -> explicit -> default

vars == <<file, pc, sm, lastOp, ret, raised, warned, trace, configured, hist>>

----------------------------------------------------------------------------
(* Bounds *)

\* inputs x of forward are 0..MaxInput
MaxInput == 3
\* the variance keyword of gaussian noise is 1..MaxVariance
MaxVariance == 1

----------------------------------------------------------------------------
(* Python values *)

\* an attribute that was never assigned (reading it raises AttributeError)
Unset == <<"unset">>
\* Python's None
None == <<"None">>
\* the string "default"
Default == <<"default">>
\* a keyword argument the caller did not pass
Omitted == <<"omitted">>
\* any other value v
Val(v) == <<"val", v>>

IsVal(a) == Len(a) = 2

Min2(a, b) == IF a <= b THEN a ELSE b
Max2(a, b) == IF a >= b THEN a ELSE b

\* torch.clamp(x, min=lo, max=hi) is min(max(x, lo), hi)
clamp(x, lo, hi) == Min2(Max2(x, lo), hi)

----------------------------------------------------------------------------
(* The model files.  model(x) is weight * x + bias; info is the metadata  *)
(* dictionary, which a model object may lack (has_info = FALSE).           *)

NoInfo == [offset |-> <<>>, amplitude |-> <<>>, amplification |-> 0, clipping_value |-> <<0, 0>>]

ModelFiles ==
    { [has_info |-> TRUE, weight |-> 1, bias |-> 0,
       info |-> [offset |-> <<0, 1>>, amplitude |-> <<1, 2>>,
                 amplification |-> 3, clipping_value |-> <<-2, 4>>]],
      [has_info |-> TRUE, weight |-> 2, bias |-> -1,
       info |-> [offset |-> <<1, 0, 2>>, amplitude |-> <<1, 1, 3>>,
                 amplification |-> -1, clipping_value |-> <<0, 5>>]],
      [has_info |-> FALSE, weight |-> 1, bias |-> 0, info |-> NoInfo] }

Inputs == 0..MaxInput

\* self.model(x)
RawModel(m, x) == m.weight * x + m.bias

\* what callers pass for amplification, output_clipping and noise
AmplificationArgs == {Omitted, None, Default, Val(2)}
ClippingArgs == {Omitted, None, Default, Val(<<1, 2>>)}
NoiseArgs == {Omitted, None, Val("gaussian"), Val("uniform")}
KwargsSet ==
    [variance : 1..MaxVariance, voltage_ranges : {Omitted, Val(<<<<3, 4>>>>)}]

----------------------------------------------------------------------------
(* The methods *)

\* the object before __init__ has run
NewObject ==
    [model |-> Unset, voltage_ranges |-> Unset,
     amplification |-> Unset, output_clipping |-> Unset, noise |-> Unset]

\* a slip in the sign of the lower end: amplitude - offset
init_voltage_ranges_sign(info) ==
    [i \in 1..Len(info.offset) |->
        <<info.amplitude[i] - info.offset[i], info.offset[i] + info.amplitude[i]>>]

\* the rows [offset_i - amplitude_i, offset_i + amplitude_i]
init_voltage_ranges(info) ==
    [i \in 1..Len(info.offset) |->
        <<info.offset[i] - info.amplitude[i], info.offset[i] + info.amplitude[i]>>]

\* load_base_model: torch.load, then _init_voltage_ranges, which reads
\* self.model.info and so raises AttributeError on a model without info
load_base_model(self, f) ==
    LET s1 == [self EXCEPT !.model = Val(f)]
    IN  IF f.has_info
        THEN [self |-> [s1 EXCEPT !.voltage_ranges = Val(init_voltage_ranges(f.info))],
              raised |-> "none"]
        ELSE [self |-> s1, raised |-> "AttributeError"]

\* __init__ only calls load_base_model: no effect attribute is assigned
SurrogateModel_init(self, f) == load_base_model(self, f)

\* a parameter declared "= None" takes None when the caller omits it
BindDefault(arg) == IF arg = Omitted THEN None ELSE arg

\* a slip in the test for "default": every value but None takes the default
set_amplification_any_default(self, value) ==
    IF value # None
    THEN [self EXCEPT !.amplification = Val(self.model[2].info.amplification)]
    ELSE [self EXCEPT !.amplification = value]

set_amplification(self, value) ==
    IF value # None /\ value = Default
    THEN [self EXCEPT !.amplification = Val(self.model[2].info.amplification)]
    ELSE [self EXCEPT !.amplification = value]

\* a slip that turns None into an always-open clipping range
set_output_clipping_identity(self, value) ==
    IF value # None /\ value = Default
    THEN [self EXCEPT !.output_clipping = Val(self.model[2].info.clipping_value)]
    ELSE IF value = None
    THEN [self EXCEPT !.output_clipping = Val(<<-100, 100>>)]
    ELSE [self EXCEPT !.output_clipping = value]

\* a slip that resolves "default" only while the slot holds no value
set_output_clipping_cached(self, value) ==
    IF value # None /\ value = Default
    THEN IF IsVal(self.output_clipping)
         THEN self
         ELSE [self EXCEPT !.output_clipping = Val(self.model[2].info.clipping_value)]
    ELSE [self EXCEPT !.output_clipping = value]

set_output_clipping(self, value) ==
    IF value # None /\ value = Default
    THEN [self EXCEPT !.output_clipping = Val(self.model[2].info.clipping_value)]
    ELSE [self EXCEPT !.output_clipping = value]

\* get_noise(noise, kwargs): None gives no noise, "gaussian" a GaussianNoise
\* of the given variance, any other tag is a configuration error
get_noise(noise, kwargs) ==
    IF noise = None
    THEN [ret |-> None, raised |-> "none"]
    ELSE IF noise = Val("gaussian")
    THEN [ret |-> Val([type |-> "gaussian", variance |-> kwargs.variance]),
          raised |-> "none"]
    ELSE [ret |-> None, raised |-> "ConfigurationError"]

\* a slip that lets a voltage_ranges keyword overwrite the derived ranges
set_effects_voltage_ranges_kw(self, kwargs) ==
    IF kwargs.voltage_ranges = Omitted THEN self.voltage_ranges ELSE kwargs.voltage_ranges

\* self.voltage_ranges after set_effects: the method never assigns it, the
\* extra keywords only travel to get_noise
set_effects_voltage_ranges(self, kwargs) == self.voltage_ranges

set_effects(self, amplification, output_clipping, noise, kwargs) ==
    LET s1 == set_amplification(self, amplification)
        s2 == set_output_clipping(s1, output_clipping)
        n  == get_noise(noise, kwargs)
        s3 == [s2 EXCEPT !.voltage_ranges = set_effects_voltage_ranges(s2, kwargs)]
    IN  IF n.raised # "none"
        THEN [self |-> s3, raised |-> n.raised]
        ELSE [self |-> [s3 EXCEPT !.noise = n.ret], raised |-> "none"]

\* GaussianNoise.__call__: the output plus a sample e
apply_noise(noise, y, e) == y + e

\* the samples a noise object can draw
NoiseSamples(noise) ==
    IF IsVal(noise) THEN (0 - noise[2].variance)..noise[2].variance ELSE {0}

\* a slip in the order of the stages: clipping before amplification and noise
forward_clip_first(self, x, e) ==
    IF Unset \in {self.amplification, self.noise, self.output_clipping}
    THEN [ret |-> None, raised |-> "AttributeError", trace |-> <<"model">>]
    ELSE
    LET y0 == RawModel(self.model[2], x)
        cl == self.output_clipping # None
        y1 == IF cl THEN clamp(y0, self.output_clipping[2][1], self.output_clipping[2][2])
              ELSE y0
        t1 == IF cl THEN <<"model", "clipping">> ELSE <<"model">>
        am == self.amplification # None
        y2 == IF am THEN y1 * self.amplification[2] ELSE y1
        t2 == IF am THEN Append(t1, "amplification") ELSE t1
        no == self.noise # None
        y3 == IF no THEN apply_noise(self.noise[2], y2, e) ELSE y2
        t3 == IF no THEN Append(t2, "noise") ELSE t2
    IN  [ret |-> Val(y3), raised |-> "none", trace |-> t3]

\* forward, stage by stage; reading an attribute that was never assigned
\* raises AttributeError at that point
forward(self, x, e) ==
    LET y0 == RawModel(self.model[2], x)
        t0 == <<"model">>
    IN  IF self.amplification = Unset
        THEN [ret |-> None, raised |-> "AttributeError", trace |-> t0]
        ELSE
        LET amp == self.amplification # None
            y1  == IF amp THEN y0 * self.amplification[2] ELSE y0
            t1  == IF amp THEN Append(t0, "amplification") ELSE t0
        IN  IF self.noise = Unset
            THEN [ret |-> None, raised |-> "AttributeError", trace |-> t1]
            ELSE
            LET noi == self.noise # None
                y2  == IF noi THEN apply_noise(self.noise[2], y1, e) ELSE y1
                t2  == IF noi THEN Append(t1, "noise") ELSE t1
            IN  IF self.output_clipping = Unset
                THEN [ret |-> None, raised |-> "AttributeError", trace |-> t2]
                ELSE IF self.output_clipping # None
                THEN [ret |-> Val(clamp(y2, self.output_clipping[2][1],
                                            self.output_clipping[2][2])),
                      raised |-> "none", trace |-> Append(t2, "clipping")]
                ELSE [ret |-> Val(y2), raised |-> "none", trace |-> t2]

\* reset warns once and does nothing else
reset(self) == [self |-> self, warnings |-> 1]

\* close is a bare pass: the print that announced it is commented out
close(self) == [self |-> self, warnings |-> 0]

is_hardware(self) == FALSE

\* "info" in dir(self.model)
get_electrode_no(self) ==
    IF self.model[2].has_info
    THEN [ret |-> Val(Len(self.model[2].info.offset)), warnings |-> 0]
    ELSE [ret |-> None, warnings |-> 1]

----------------------------------------------------------------------------
(* History of the default -> explicit -> default round trip of one slot:   *)
(* phase 0 no "default" call yet, 1 after the first, 2 once an explicit    *)
(* value was stored after it, 3 after a later "default" call; first is the *)
(* value the slot held after the first "default" call.                     *)

HistNone == [phase |-> 0, first |-> None]

HistStep(h, arg, stored) ==
    IF arg = Default
    THEN IF h.phase = 0 THEN [phase |-> 1, first |-> stored]
         ELSE IF h.phase = 1 THEN h
         ELSE [h EXCEPT !.phase = 3]
    ELSE IF IsVal(arg) /\ h.phase >= 1
    THEN [h EXCEPT !.phase = 2]
    ELSE h

----------------------------------------------------------------------------
(* The state machine *)

Init ==
    /\ file \in ModelFiles
    /\ pc = "new"
    /\ sm = NewObject
    /\ lastOp = [name |-> "none", args |-> <<>>]
    /\ ret = None
    /\ raised = "none"
    /\ warned = 0
    /\ trace = <<>>
    /\ configured = FALSE
    /\ hist = [amplification |-> HistNone, output_clipping |-> HistNone]

\* SurrogateModel(filename)
Construct ==
    /\ pc = "new"
    /\ LET r == SurrogateModel_init(sm, file)
       IN  /\ sm' = r.self
           /\ raised' = r.raised
           /\ pc' = IF r.raised = "none" THEN "ready" ELSE "failed"
    /\ lastOp' = [name |-> "__init__", args |-> <<>>]
    /\ ret' = None
    /\ warned' = 0
    /\ trace' = <<>>
    /\ UNCHANGED <<file, configured, hist>>

CallSetEffects ==
    /\ pc = "ready"
    /\ \E a \in AmplificationArgs, c \in ClippingArgs, n \in NoiseArgs, kw \in KwargsSet :
          LET r == set_effects(sm, BindDefault(a), BindDefault(c), BindDefault(n), kw)
          IN  /\ sm' = r.self
              /\ raised' = r.raised
              /\ lastOp' = [name |-> "set_effects",
                            args |-> [amplification |-> a, output_clipping |-> c,
                                      noise |-> n, kwargs |-> kw]]
              /\ hist' = [amplification |->
                              HistStep(hist.amplification, a, r.self.amplification),
                          output_clipping |->
                              HistStep(hist.output_clipping, c, r.self.output_clipping)]
    /\ ret' = None
    /\ warned' = 0
    /\ trace' = <<>>
    /\ configured' = TRUE
    /\ UNCHANGED <<file, pc>>

CallSetAmplification ==
    /\ pc = "ready"
    /\ \E v \in AmplificationArgs \ {Omitted} :
          /\ sm' = set_amplification(sm, v)
          /\ lastOp' = [name |-> "set_amplification", args |-> [value |-> v]]
          /\ hist' = [hist EXCEPT !.amplification =
                          HistStep(@, v, set_amplification(sm, v).amplification)]
    /\ ret' = None
    /\ raised' = "none"
    /\ warned' = 0
    /\ trace' = <<>>
    /\ configured' = TRUE
    /\ UNCHANGED <<file, pc>>

CallSetOutputClipping ==
    /\ pc = "ready"
    /\ \E v \in ClippingArgs \ {Omitted} :
          /\ sm' = set_output_clipping(sm, v)
          /\ lastOp' = [name |-> "set_output_clipping", args |-> [value |-> v]]
          /\ hist' = [hist EXCEPT !.output_clipping =
                          HistStep(@, v, set_output_clipping(sm, v).output_clipping)]
    /\ ret' = None
    /\ raised' = "none"
    /\ warned' = 0
    /\ trace' = <<>>
    /\ configured' = TRUE
    /\ UNCHANGED <<file, pc>>

CallForward ==
    /\ pc = "ready"
    /\ \E x \in Inputs :
       \E e \in NoiseSamples(sm.noise) :
          LET r == forward(sm, x, e)
          IN  /\ ret' = r.ret
              /\ raised' = r.raised
              /\ trace' = r.trace
              /\ lastOp' = [name |-> "forward", args |-> [x |-> x, e |-> e]]
    /\ warned' = 0
    /\ UNCHANGED <<file, pc, sm, configured, hist>>

CallReset ==
    /\ pc = "ready"
    /\ sm' = reset(sm).self
    /\ warned' = reset(sm).warnings
    /\ lastOp' = [name |-> "reset", args |-> <<>>]
    /\ ret' = None
    /\ raised' = "none"
    /\ trace' = <<>>
    /\ UNCHANGED <<file, pc, configured, hist>>

CallClose ==
    /\ pc = "ready"
    /\ sm' = close(sm).self
    /\ warned' = close(sm).warnings
    /\ lastOp' = [name |-> "close", args |-> <<>>]
    /\ ret' = None
    /\ raised' = "none"
    /\ trace' = <<>>
    /\ UNCHANGED <<file, pc, configured, hist>>

CallIsHardware ==
    /\ pc = "ready"
    /\ ret' = Val(is_hardware(sm))
    /\ lastOp' = [name |-> "is_hardware", args |-> <<>>]
    /\ raised' = "none"
    /\ warned' = 0
    /\ trace' = <<>>
    /\ UNCHANGED <<file, pc, sm, configured, hist>>

CallGetElectrodeNo ==
    /\ pc = "ready"
    /\ ret' = get_electrode_no(sm).ret
    /\ warned' = get_electrode_no(sm).warnings
    /\ lastOp' = [name |-> "get_electrode_no", args |-> <<>>]
    /\ raised' = "none"
    /\ trace' = <<>>
    /\ UNCHANGED <<file, pc, sm, configured, hist>>

Next ==
    \/ Construct
    \/ CallSetEffects
    \/ CallSetAmplification
    \/ CallSetOutputClipping
    \/ CallForward
    \/ CallReset
    \/ CallClose
    \/ CallIsHardware
    \/ CallGetElectrodeNo

Spec == Init /\ [][Next]_vars

----------------------------------------------------------------------------
(* What the formulas below read off a state *)

Range(q) == {q[i] : i \in 1..Len(q)}

\* the raw model output of the last forward call
LastRaw == RawModel(sm.model[2], lastOp.args.x)

\* the argument the last call passed for a slot (Omitted when it passed none)
LastArg(slot) ==
    IF lastOp.name = "set_effects" THEN lastOp.args[slot]
    ELSE IF lastOp.name = "set_" \o slot THEN lastOp.args.value
    ELSE Omitted

\* clamp(noise(raw * amplification), low, high), each disabled stage omitted
ExpectedOutput(self, raw, e) ==
    LET y1 == IF self.amplification = None THEN raw ELSE raw * self.amplification[2]
        y2 == IF self.noise = None THEN y1 ELSE y1 + e
    IN  IF self.output_clipping = None THEN y2
        ELSE clamp(y2, self.output_clipping[2][1], self.output_clipping[2][2])

\* the enabled stages in the order raw model, amplification, noise, clipping
ExpectedStages(self) ==
    <<"model">>
    \o (IF self.amplification = None THEN <<>> ELSE <<"amplification">>)
    \o (IF self.noise = None THEN <<>> ELSE <<"noise">>)
    \o (IF self.output_clipping = None THEN <<>> ELSE <<"clipping">>)

\* what one stage makes of y
StageOutput(stage, self, y, e) ==
    IF stage = "amplification" THEN y * self.amplification[2]
    ELSE IF stage = "noise" THEN y + e
    ELSE IF stage = "clipping"
    THEN clamp(y, self.output_clipping[2][1], self.output_clipping[2][2])
    ELSE y

\* what the stages of t, applied in turn, make of the raw output
RECURSIVE StagesOutput(_, _, _, _)
StagesOutput(t, self, raw, e) ==
    IF t = <<>> THEN raw
    ELSE StageOutput(t[Len(t)], self, StagesOutput(SubSeq(t, 1, Len(t) - 1), self, raw, e), e)

----------------------------------------------------------------------------
(* The claims *)

\* C1: a forward call that returns applies the enabled stages in the order
\* raw model, amplification, noise, output clipping, and returns
\* clamp(noise(model(x) * amplification), low, high) with each disabled
\* stage left out.
C1_ForwardOrder ==
    (lastOp.name = "forward" /\ raised = "none") =>
        /\ trace = ExpectedStages(sm)
        /\ ret = Val(ExpectedOutput(sm, LastRaw, lastOp.args.e))

\* amplification 2, no noise, clipping [1, 2], raw output 3: the result is 2
C1_Witness ==
    /\ lastOp.name = "forward"
    /\ sm.amplification = Val(2)
    /\ sm.noise = None
    /\ sm.output_clipping = Val(<<1, 2>>)
    /\ LastRaw = 3
    /\ ret = Val(2)

\* C2: after construction and before any configuration call the three effect
\* slots are disabled (None), and a forward call in that state returns the
\* raw model output without raising.
C2_UnconfiguredPassThrough ==
    (pc = "ready" /\ ~configured) =>
        /\ sm.amplification = None
        /\ sm.output_clipping = None
        /\ sm.noise = None
        /\ lastOp.name = "forward" => (raised = "none" /\ ret = Val(LastRaw))

\* C3: a configuration call that raises leaves amplification, output_clipping
\* and noise as they were before the call.
C3_FailedCallKeepsSlots ==
    [][(/\ lastOp'.name \in {"set_effects", "set_amplification", "set_output_clipping"}
        /\ raised' # "none")
       => /\ sm'.amplification = sm.amplification
          /\ sm'.output_clipping = sm.output_clipping
          /\ sm'.noise = sm.noise]_vars

C5_DisabledStageSkipped ==
    /\ \A slot \in {"amplification", "output_clipping"} :
          (LastArg(slot) = None /\ lastOp.name = "set_" \o slot) => sm[slot] = None
    /\ (lastOp.name = "set_effects" /\ raised = "none") =>
          \A slot \in {"amplification", "output_clipping", "noise"} :
              BindDefault(lastOp.args[slot]) = None => sm[slot] = None
    /\ lastOp.name = "forward" =>
          /\ sm.amplification = None => "amplification" \notin Range(trace)
          /\ sm.noise = None => "noise" \notin Range(trace)
          /\ sm.output_clipping = None => "clipping" \notin Range(trace)
          /\ raised = "none" => ret = Val(StagesOutput(trace, sm, LastRaw, lastOp.args.e))

\* forward with amplification and noise disabled and clipping [1, 2] enabled,
\* on a raw output above the range
C5_Witness ==
    /\ lastOp.name = "forward"
    /\ raised = "none"
    /\ sm.amplification = None
    /\ sm.noise = None
    /\ sm.output_clipping = Val(<<1, 2>>)
    /\ LastRaw > 2
    /\ trace = <<"model", "clipping">>
    /\ ret = Val(2)

\* C6: a "default" call on amplification or output_clipping that follows an
\* earlier "default" call and explicit values stores the value the slot held
\* after the first "default" call.
C6_DefaultRoundTrip ==
    \A slot \in {"amplification", "output_clipping"} :
        (LastArg(slot) = Default /\ hist[slot].phase >= 1) => sm[slot] = hist[slot].first

\* default, then [1, 2], then default again on output_clipping
C6_Witness ==
    /\ lastOp.name = "set_output_clipping"
    /\ lastOp.args.value = Default
    /\ hist.output_clipping.phase = 3
    /\ sm.output_clipping = Val(file.info.clipping_value)
    /\ file.info.clipping_value # <<1, 2>>

\* C7: a set_effects call that omits a key does not disable an effect that
\* holds a value: the slot keeps its value, or takes the metadata value.
C7_OmittedKeyKeepsEffect ==
    [][(lastOp'.name = "set_effects" /\ raised' = "none") =>
          /\ (lastOp'.args.amplification = Omitted /\ IsVal(sm.amplification)) =>
                sm'.amplification \in {sm.amplification, Val(file.info.amplification)}
          /\ (lastOp'.args.output_clipping = Omitted /\ IsVal(sm.output_clipping)) =>
                sm'.output_clipping \in {sm.output_clipping, Val(file.info.clipping_value)}
          /\ (lastOp'.args.noise = Omitted /\ IsVal(sm.noise)) =>
                sm'.noise = sm.noise]_vars

C9_ResetCloseWarnOnce ==
    [][lastOp'.name \in {"reset", "close"} =>
          /\ warned' = 1
          /\ raised' = "none"
          /\ sm' = sm]_vars

C11_VoltageRangeRows ==
    pc = "ready" =>
        /\ IsVal(sm.voltage_ranges)
        /\ Len(sm.voltage_ranges[2]) = Len(file.info.offset)
        /\ \A i \in 1..Len(file.info.offset) :
              /\ Len(sm.voltage_ranges[2][i]) = 2
              /\ sm.voltage_ranges[2][i][1] = file.info.offset[i] - file.info.amplitude[i]
              /\ sm.voltage_ranges[2][i][2] = file.info.offset[i] + file.info.amplitude[i]

\* just constructed from offsets [1, 0, 2] and amplitudes [1, 1, 3]
C11_Witness ==
    /\ pc = "ready"
    /\ lastOp.name = "__init__"
    /\ file.info.offset = <<1, 0, 2>>
    /\ file.info.amplitude = <<1, 1, 3>>
    /\ sm.voltage_ranges = Val(<<<<0, 2>>, <<-1, 1>>, <<-1, 5>>>>)

====
